---- MODULE Spec2Model ----
(***************************************************************************)
(* WhatsMyName dataset tooling: the Storage Accessor (WMNBase), the        *)
(* Canonicalizer (WMNDataFormatter), the Integrity Hasher (WMNDataHasher)  *)
(* and the Semantic Validator (WMNDataValidator).                          *)
(*                                                                         *)
(* Strings are sequences of code points, so that str.casefold and the      *)
(* code-point order of Python's string comparison are computed, not        *)
(* assumed.  A JSON object is a sequence of <<key, value>> pairs with      *)
(* distinct keys (a Python dict keeps insertion order).  A JSON text is    *)
(* the document it parses to plus its layout: json.dumps(indent=2) emits   *)
(* the layout "indent2", a file may hold any other layout of the same      *)
(* document, or no document at all.                                        *)
(***************************************************************************)
EXTENDS Naturals, Sequences, FiniteSets

\* ------------------------------------------------------------------ bounds
\* longest site list of a dataset
MaxSites == 2
\* most fields of one site
MaxKeys == 2
\* longest authors / categories array
MaxArr == 2
\* format_file calls in one run of the model
MaxCalls == 2
\* update_hash_file calls in one run of the model
MaxHashCalls == 3
\* edits of a tracked file between runs of the hashing tool
MaxEdits == 1
\* longest site list given to the validator
MaxNames == 3
\* calls of the validator in one run of the model
MaxValidations == 2

\* ----------------------------------------------------------------- strings
\* wmn_constants.py
NAME_KEY == "name"
HEADERS_KEY == "headers"
URI_KEY == "uri_check"

\* code points: "A" = 65, "B" = 66, "a" = 97, space = 32
FoldChar(c) == IF c \in 65..90 THEN c + 32 ELSE c

\* str.casefold
Casefold(s) == [i \in DOMAIN s |-> FoldChar(s[i])]

\* Python's str < str: lexicographic by code point
StrLess(a, b) ==
  \E i \in 1..(Len(a) + 1) :
     /\ \A j \in 1..(i - 1) : j <= Len(b) /\ a[j] = b[j]
     /\ i <= Len(b)
     /\ (i = Len(a) + 1 \/ a[i] < b[i])

StrLeq(a, b) == a = b \/ StrLess(a, b)

\* str.strip() leaves nothing: the string is empty or all whitespace
IsBlank(s) == \A i \in DOMAIN s : s[i] = 32

\* sorted() gone unstable: a pair is put before the pairs of equal key
InsertPairTiesFirst(sorted, p) ==
  LET after == {i \in 1..Len(sorted) : StrLeq(p[1], sorted[i][1])}
      pos == IF after = {} THEN Len(sorted) + 1
             ELSE CHOOSE i \in after : \A j \in after : i <= j
  IN  SubSeq(sorted, 1, pos - 1) \o <<p>> \o SubSeq(sorted, pos, Len(sorted))

\* sorted(): a stable sort of <<key, item>> pairs by key.  InsertPair puts
\* a pair after every pair whose key is not greater, so equal keys keep
\* their input order.
InsertPair(sorted, p) ==
  LET after == {i \in 1..Len(sorted) : StrLess(p[1], sorted[i][1])}
      pos == IF after = {} THEN Len(sorted) + 1
             ELSE CHOOSE i \in after : \A j \in after : i <= j
  IN  SubSeq(sorted, 1, pos - 1) \o <<p>> \o SubSeq(sorted, pos, Len(sorted))

RECURSIVE SortPairs(_)
SortPairs(ps) ==
  IF ps = <<>> THEN <<>>
  ELSE InsertPair(SortPairs(SubSeq(ps, 1, Len(ps) - 1)), ps[Len(ps)])

Items(ps) == [i \in DOMAIN ps |-> ps[i][2]]

\* ------------------------------------------------------------ JSON objects
\* dict as a sequence of <<key, value>> pairs
Keys(d) == {d[i][1] : i \in DOMAIN d}
HasKey(d, k) == k \in Keys(d)
Get(d, k) == d[CHOOSE i \in DOMAIN d : d[i][1] = k][2]

\* A site value: a string (s) or a mapping of header names (h), or some
\* other JSON value ("other").
StrVal(s) == [t |-> "str", s |-> s, h |-> <<>>]
DictVal(h) == [t |-> "dict", s |-> <<>>, h |-> h]
OtherVal == [t |-> "other", s |-> <<>>, h |-> <<>>]

\* ------------------------------------------------------------- documents
\* The dataset: authors and categories are arrays of strings ("list"),
\* absent or null ("missing": dict.get gives None for both) or another JSON
\* value ("other"); sites likewise, its items being sites.
ListVal(items) == [t |-> "list", items |-> items]
MissingVal == [t |-> "missing", items |-> <<>>]
NotAList == [t |-> "other", items |-> <<>>]

DataDoc(a, c, s) == [authors |-> a, categories |-> c, sites |-> s]
NoDataDoc == DataDoc(MissingVal, MissingVal, MissingVal)

\* The schema: whether the root is an object, then what sits at
\* properties, properties.sites and properties.sites.items ("dict",
\* "missing", "null" or "other"), then the declaration at
\* properties.sites.items.properties: its kind and, for a mapping, its keys
\* in declared order.  strict and required are the two schema keywords the
\* validator model reads for a site (additionalProperties: false, required).
SchemaDoc(root, path, pt, keys, strict, required) ==
  [root |-> root, path |-> path, props |-> [t |-> pt, keys |-> keys],
   strict |-> strict, required |-> required]
NoSchemaDoc == SchemaDoc("other", <<"missing", "missing", "missing">>, "missing", <<>>, FALSE, {})

\* A JSON text: the document it holds and its layout; "empty" is a file
\* with no document in it (json.loads raises JSONDecodeError).
JsonText(doc, lay) == [t |-> "json", lay |-> lay, doc |-> doc]
EmptyData == [t |-> "empty", lay |-> "none", doc |-> NoDataDoc]
EmptySchema == [t |-> "empty", lay |-> "none", doc |-> NoSchemaDoc]

\* json.dumps(value, indent=DEFAULT_JSON_INDENT, ensure_ascii=False)
Dumps(doc) == JsonText(doc, "indent2")

\* a result: the error kind raised ("none" when it returned) and the value
Ok(v) == [err |-> "none", v |-> v]
Raise(kind, v) == [err |-> kind, v |-> v]

\* F applied to the value of e, e being evaluated once
Let(e, F(_)) == CHOOSE y \in {F(x) : x \in {e}} : TRUE

\* WMNBase.parse_json_data: json.loads, JSONDecodeError as WMNFormatError
parse_json_data(text, dflt) ==
  IF text.t = "json" THEN Ok(text.doc) ELSE Raise("Format", dflt)

\* ------------------------------------------------------------ Canonicalizer
\* WMNDataFormatter._sort_array_alphabetically
_sort_array_alphabetically(array) ==
  Items(SortPairs([i \in DOMAIN array |-> <<Casefold(array[i]), array[i]>>]))

\* the sort key without casefold()
SiteSortKeyNoFold(site) ==
  IF HasKey(site, NAME_KEY) THEN Get(site, NAME_KEY).s ELSE <<>>

\* the sort key of _sort_sites_by_name: str(site.get(NAME_KEY, "")).casefold()
SiteSortKey(site) ==
  Casefold(IF HasKey(site, NAME_KEY) THEN Get(site, NAME_KEY).s ELSE <<>>)

\* WMNDataFormatter._sort_sites_by_name
_sort_sites_by_name(sites) ==
  Items(SortPairs([i \in DOMAIN sites |-> <<SiteSortKey(sites[i]), sites[i]>>]))

\* WMNDataFormatter._sort_site_headers: the headers mapping, when it is a
\* non-empty mapping, re-built in case-folded key order; the site's own key
\* order is untouched.
_sort_site_headers(site) ==
  [i \in DOMAIN site |->
     IF site[i][1] = HEADERS_KEY /\ site[i][2].t = "dict" /\ site[i][2].h # <<>>
     THEN <<site[i][1],
            DictVal(Items(SortPairs([j \in DOMAIN site[i][2].h |->
                       <<Casefold(site[i][2].h[j][1]), site[i][2].h[j]>>])))>>
     ELSE site[i]]

\* the keys of a site that the schema does not declare
UnknownKeys(site, key_order) ==
  {k \in Keys(site) : \A i \in DOMAIN key_order : key_order[i] # k}

\* the site's keys left in the order the site had them
ReorderKeysSiteOrder(site, key_order) ==
  SelectSeq(site, LAMBDA kv : \E i \in DOMAIN key_order : key_order[i] = kv[1])

\* WMNDataFormatter._reorder_site_keys, past its unknown-key check
RECURSIVE ReorderKeys(_, _)
ReorderKeys(site, key_order) ==
  IF key_order = <<>> THEN <<>>
  ELSE (IF HasKey(site, Head(key_order))
        THEN <<<<Head(key_order), Get(site, Head(key_order))>>>>
        ELSE <<>>) \o ReorderKeys(site, Tail(key_order))

\* _reorder_site_keys dropping undeclared keys instead of raising
_reorder_site_keys_lenient(site, key_order) == Ok(ReorderKeys(site, key_order))

\* WMNDataFormatter._reorder_site_keys
_reorder_site_keys(site, key_order) ==
  IF UnknownKeys(site, key_order) # {} THEN Raise("Format", site)
  ELSE Ok(ReorderKeys(site, key_order))

\* WMNDataFormatter._format_site
_format_site(site, key_order) ==
  _reorder_site_keys(_sort_site_headers(site), key_order)

\* WMNDataFormatter._get_site_key_order on a parsed schema: the chain
\* schema.get(properties, {}).get(sites, {}).get(items, {}).get(properties).
\* A missing link gives the {} default and the chain ends in None; a link
\* that is null or not an object has no .get and the chain raises
\* AttributeError.
_get_site_key_order(sd) ==
  LET firstBad == {i \in 1..3 : sd.path[i] # "dict"}
      stop == IF firstBad = {} THEN 0
              ELSE CHOOSE i \in firstBad : \A j \in firstBad : i <= j
  IN  IF sd.root # "dict" THEN Raise("Attribute", <<>>)
      ELSE IF stop # 0 /\ sd.path[stop] # "missing" THEN Raise("Attribute", <<>>)
      ELSE IF stop # 0 THEN Raise("Schema", <<>>)
      ELSE IF sd.props.t \in {"missing", "null"} THEN Raise("Schema", <<>>)
      ELSE IF sd.props.t # "dict" THEN Raise("Schema", <<>>)
      ELSE Ok(sd.props.keys)

\* WMNDataFormatter._format_string_array on the value data.get(key)
_format_string_array(arr) ==
  IF arr.t = "missing" THEN Raise("Format", arr)
  ELSE IF arr.t # "list" \/ arr.items = <<>> THEN Raise("Format", arr)
  ELSE IF \E i \in DOMAIN arr.items : IsBlank(arr.items[i]) THEN Raise("Format", arr)
  ELSE Ok(ListVal(_sort_array_alphabetically(arr.items)))

\* ------------------------------------------------------------------ state
\* disk: the four files, each [exists, text]; the process's WMNBase fields
\* _data_raw, _data, _schema_raw, _schema, each [some, v] (None: some is
\* FALSE).  hist is the record of the calls made so far, each with the
\* state it started from; it is read by the properties only.
VARIABLES disk, _data_raw, _data, _schema_raw, _schema, hist

vars == <<disk, _data_raw, _data, _schema_raw, _schema, hist>>

\* wmn_constants.py: DEFAULT_DATA, DEFAULT_SCHEMA, HASH_FILE_EXTENSION
DATA_PATH == "data"
SCHEMA_PATH == "schema"
HASH_FILE_EXTENSION == ".sha256"

Some(v) == [some |-> TRUE, v |-> v]
None(dflt) == [some |-> FALSE, v |-> dflt]

File(text) == [exists |-> TRUE, text |-> text]
NoFile(dflt) == [exists |-> FALSE, text |-> dflt]

\* a digest file's text: the hex digest of a text (hex is the text the
\* digest was computed from: SHA-256 taken as collision-free), has is
\* whether any digest is there, nl whether a newline ends it
NoDigest(dflt) == [has |-> FALSE, hex |-> dflt, nl |-> FALSE]

\* the text of an empty file at each path
EmptyAt(path) ==
  CASE path = DATA_PATH -> EmptyData
    [] path = SCHEMA_PATH -> EmptySchema
    [] path = DATA_PATH \o HASH_FILE_EXTENSION -> NoDigest(EmptyData)
    [] path = SCHEMA_PATH \o HASH_FILE_EXTENSION -> NoDigest(EmptySchema)

\* the process and the disk as one value
World == [disk |-> disk, _data_raw |-> _data_raw, _data |-> _data,
          _schema_raw |-> _schema_raw, _schema |-> _schema]

SetWorld(w) ==
  /\ disk' = w.disk
  /\ _data_raw' = w._data_raw
  /\ _data' = w._data
  /\ _schema_raw' = w._schema_raw
  /\ _schema' = w._schema

\* results of the accessors: error kind, the world after, the value
Ret(w, v) == [err |-> "none", w |-> w, v |-> v]
Fail(kind, w, v) == [err |-> kind, w |-> w, v |-> v]

\* -------------------------------------------------------- Storage Accessor
\* WMNBase.read_file_content: FileNotFoundError as WMNFileError
read_file_content(w, path) ==
  IF w.disk[path].exists THEN Ret(w, w.disk[path].text)
  ELSE Fail("File", w, EmptyAt(path))

\* Path.write_text opens the file for writing, which truncates it, and then
\* encodes and writes.  "ok": all written.  "fail_open": the open failed
\* (FileNotFoundError, IsADirectoryError, PermissionError, OSError), the
\* file is as it was.  "fail_write": the failure came after the open
\* (UnicodeEncodeError, OSError), the file is left empty.
WriteOutcomes == {"ok", "fail_open", "fail_write"}

\* write_file_content that leaves the cached raw text as it was
write_file_content_stale_raw(w, path, content, outcome) ==
  IF outcome = "ok" THEN
     LET d == [w.disk EXCEPT ![path] = File(content)]
     IN  IF path = DATA_PATH
         THEN Ret([w EXCEPT !.disk = d, !._data = None(NoDataDoc)], TRUE)
         ELSE IF path = SCHEMA_PATH
         THEN Ret([w EXCEPT !.disk = d, !._schema = None(NoSchemaDoc)], TRUE)
         ELSE Ret([w EXCEPT !.disk = d], TRUE)
  ELSE IF outcome = "fail_open" THEN Fail("File", w, FALSE)
  ELSE Fail("File", [w EXCEPT !.disk[path] = File(EmptyAt(path))], FALSE)

\* write_file_content that keeps the cached parsed structure
write_file_content_no_invalidate(w, path, content, outcome) ==
  IF outcome = "ok" THEN
     LET d == [w.disk EXCEPT ![path] = File(content)]
     IN  IF path = DATA_PATH
         THEN Ret([w EXCEPT !.disk = d, !._data_raw = Some(content)], TRUE)
         ELSE IF path = SCHEMA_PATH
         THEN Ret([w EXCEPT !.disk = d, !._schema_raw = Some(content)], TRUE)
         ELSE Ret([w EXCEPT !.disk = d], TRUE)
  ELSE IF outcome = "fail_open" THEN Fail("File", w, FALSE)
  ELSE Fail("File", [w EXCEPT !.disk[path] = File(EmptyAt(path))], FALSE)

\* write_file_content that drops the cached texts on a write to any other
\* path
write_file_content_drops_caches(w, path, content, outcome) ==
  IF outcome = "ok" THEN
     LET d == [w.disk EXCEPT ![path] = File(content)]
     IN  IF path = DATA_PATH
         THEN Ret([w EXCEPT !.disk = d, !._data_raw = Some(content),
                            !._data = None(NoDataDoc)], TRUE)
         ELSE IF path = SCHEMA_PATH
         THEN Ret([w EXCEPT !.disk = d, !._schema_raw = Some(content),
                            !._schema = None(NoSchemaDoc)], TRUE)
         ELSE Ret([w EXCEPT !.disk = d, !._data_raw = None(EmptyData),
                            !._schema_raw = None(EmptySchema)], TRUE)
  ELSE IF outcome = "fail_open" THEN Fail("File", w, FALSE)
  ELSE Fail("File", [w EXCEPT !.disk[path] = File(EmptyAt(path))], FALSE)

\* WMNBase.write_file_content
write_file_content(w, path, content, outcome) ==
  IF outcome = "ok" THEN
     LET d == [w.disk EXCEPT ![path] = File(content)]
     IN  IF path = DATA_PATH
         THEN Ret([w EXCEPT !.disk = d, !._data_raw = Some(content),
                            !._data = None(NoDataDoc)], TRUE)
         ELSE IF path = SCHEMA_PATH
         THEN Ret([w EXCEPT !.disk = d, !._schema_raw = Some(content),
                            !._schema = None(NoSchemaDoc)], TRUE)
         ELSE Ret([w EXCEPT !.disk = d], TRUE)
  ELSE IF outcome = "fail_open" THEN Fail("File", w, FALSE)
  ELSE Fail("File", [w EXCEPT !.disk[path] = File(EmptyAt(path))], FALSE)

\* WMNBase.data_raw (getter)
data_raw(w) ==
  IF w._data_raw.some THEN Ret(w, w._data_raw.v)
  ELSE Let(read_file_content(w, DATA_PATH), LAMBDA r :
         IF r.err # "none" THEN r
         ELSE Ret([w EXCEPT !._data_raw = Some(r.v)], r.v))

\* WMNBase.schema_raw (getter)
schema_raw(w) ==
  IF w._schema_raw.some THEN Ret(w, w._schema_raw.v)
  ELSE Let(read_file_content(w, SCHEMA_PATH), LAMBDA r :
         IF r.err # "none" THEN r
         ELSE Ret([w EXCEPT !._schema_raw = Some(r.v)], r.v))

\* WMNBase.data (getter)
data(w) ==
  IF w._data.some THEN Ret(w, w._data.v)
  ELSE Let(data_raw(w), LAMBDA r :
         IF r.err # "none" THEN Fail(r.err, r.w, NoDataDoc)
         ELSE Let(parse_json_data(r.v, NoDataDoc), LAMBDA p :
                IF p.err # "none" THEN Fail(p.err, r.w, NoDataDoc)
                ELSE Ret([r.w EXCEPT !._data = Some(p.v)], p.v)))

\* WMNBase.schema (getter)
schema(w) ==
  IF w._schema.some THEN Ret(w, w._schema.v)
  ELSE Let(schema_raw(w), LAMBDA r :
         IF r.err # "none" THEN Fail(r.err, r.w, NoSchemaDoc)
         ELSE Let(parse_json_data(r.v, NoSchemaDoc), LAMBDA p :
                IF p.err # "none" THEN Fail(p.err, r.w, NoSchemaDoc)
                ELSE Ret([r.w EXCEPT !._schema = Some(p.v)], p.v)))

\* the sites of a sorted list, each formatted (WMNDataFormatter._format_sites'
\* list comprehension): a Format error when any site raised
FormatAll(sorted_sites, key_order) ==
  Let([i \in DOMAIN sorted_sites |-> _format_site(sorted_sites[i], key_order)], LAMBDA fs :
    IF \E i \in DOMAIN fs : fs[i].err # "none" THEN Raise("Format", <<>>)
    ELSE Ok([i \in DOMAIN fs |-> fs[i].v]))

\* WMNDataFormatter._format_sites, after self.data was read: the world w
\* holds the parsed dataset d.  The schema is first read here, after the
\* sort; the sites are replaced only when every site formatted.
_format_sites(w, d) ==
  IF d.sites.t # "list" THEN Fail("Format", w, d)
  ELSE Let(schema(w), LAMBDA sr :
    IF sr.err # "none" THEN Fail(sr.err, sr.w, d)
    ELSE Let(_get_site_key_order(sr.v), LAMBDA ko :
      IF ko.err # "none" THEN Fail(ko.err, sr.w, d)
      ELSE Let(FormatAll(_sort_sites_by_name(d.sites.items), ko.v), LAMBDA fs :
        IF fs.err # "none" THEN Fail("Format", sr.w, d)
        ELSE Let([d EXCEPT !.sites = ListVal(fs.v)], LAMBDA d3 :
               Ret([sr.w EXCEPT !._data = Some(d3)], d3)))))

\* WMNDataFormatter.format_data: authors, categories, sites, then json.dumps.
\* Each step assigns into the cached parsed dataset, so a later failure
\* leaves the earlier steps' changes in _data.
format_data(w) ==
  Let(data(w), LAMBDA r0 :
    IF r0.err # "none" THEN Fail(r0.err, r0.w, EmptyData)
    ELSE Let(_format_string_array(r0.v.authors), LAMBDA a :
      IF a.err # "none" THEN Fail(a.err, r0.w, EmptyData)
      ELSE Let([r0.v EXCEPT !.authors = a.v], LAMBDA d1 :
        Let(_format_string_array(d1.categories), LAMBDA c :
          IF c.err # "none"
          THEN Fail(c.err, [r0.w EXCEPT !._data = Some(d1)], EmptyData)
          ELSE Let([d1 EXCEPT !.categories = c.v], LAMBDA d2 :
            Let(_format_sites([r0.w EXCEPT !._data = Some(d2)], d2), LAMBDA s :
              IF s.err # "none" THEN Fail(s.err, s.w, EmptyData)
              ELSE Ret(s.w, Dumps(s.v))))))))

\* WMNDataFormatter.format_schema
format_schema(w) ==
  Let(schema(w), LAMBDA r :
    IF r.err # "none" THEN Fail(r.err, r.w, EmptySchema)
    ELSE Ret(r.w, Dumps(r.v)))

\* the outcome of one format_file call as main makes it: err, the world
\* after, changed (the return value), wrote (write_file_content was
\* called), out (the formatter's text)
FormatResult(err, w, changed, wrote, out) ==
  [err |-> err, w |-> w, changed |-> changed, wrote |-> wrote, out |-> out]

\* WMNDataFormatter.format_file(formatter, raw_data, file_path), f being
\* the formatter's result: write when the text differs; an exception that
\* is no WMNError becomes WMNFormatError
format_file(f, raw_data, file_path, outcome) ==
  IF f.err # "none"
  THEN FormatResult(IF f.err = "Attribute" THEN "Format" ELSE f.err,
                    f.w, FALSE, FALSE, f.v)
  ELSE IF raw_data # f.v
  THEN Let(write_file_content(f.w, file_path, f.v, outcome), LAMBDA wr :
         FormatResult(wr.err, wr.w, wr.err = "none", TRUE, f.v))
  ELSE FormatResult("none", f.w, FALSE, FALSE, f.v)

\* main of wmn_format_dataset.py, first call:
\* formatter.format_file(formatter.format_data, formatter.data_raw, formatter.data_path)
format_file_data(w, outcome) ==
  Let(data_raw(w), LAMBDA raw :
    IF raw.err # "none" THEN FormatResult(raw.err, raw.w, FALSE, FALSE, EmptyData)
    ELSE Let(format_data(raw.w), LAMBDA f :
           format_file(f, raw.v, DATA_PATH, outcome)))

\* main of wmn_format_dataset.py, second call:
\* formatter.format_file(formatter.format_schema, formatter.schema_raw, formatter.schema_path)
format_file_schema(w, outcome) ==
  Let(schema_raw(w), LAMBDA raw :
    IF raw.err # "none" THEN FormatResult(raw.err, raw.w, FALSE, FALSE, EmptySchema)
    ELSE Let(format_schema(raw.w), LAMBDA f :
           format_file(f, raw.v, SCHEMA_PATH, outcome)))

\* ----------------------------------------------------------------- inputs
SeqsUpTo(S, n) == UNION {[1..k -> S] : k \in 0..n}
DistinctSeqs(S, n) ==
  {q \in SeqsUpTo(S, n) : \A i, j \in DOMAIN q : i # j => q[i] # q[j]}

\* site names "A", "a", "B": a case tie, and "B" < "a" by code point but
\* "a" < "b" once case-folded
Names == {<<65>>, <<97>>, <<66>>}
\* header names "B", "a"
HeaderKeys == {<<66>>, <<97>>}
HeaderDicts ==
  {[i \in DOMAIN q |-> <<q[i], StrVal(q[i])>>] :
     q \in DistinctSeqs(HeaderKeys, Cardinality(HeaderKeys))}
\* authors / categories entries "A", "a", "B", " "
ArrStrs == {<<65>>, <<97>>, <<66>>, <<32>>}

SiteKeys == {NAME_KEY, URI_KEY, HEADERS_KEY}
ValuesOf(k) ==
  CASE k = NAME_KEY -> {StrVal(n) : n \in Names}
    [] k = URI_KEY -> {StrVal(<<97>>)}
    [] k = HEADERS_KEY -> {DictVal(h) : h \in HeaderDicts} \cup {OtherVal}
AllVals == UNION {ValuesOf(k) : k \in SiteKeys}

\* the sites with at most n fields, in every field order
SitesOf(n) ==
  UNION {{[i \in DOMAIN ks |-> <<ks[i], f[i]>>] :
            f \in {g \in [DOMAIN ks -> AllVals] :
                     \A i \in DOMAIN ks : g[i] \in ValuesOf(ks[i])}} :
         ks \in DistinctSeqs(SiteKeys, n)}

ArrVals == {ListVal(q) : q \in SeqsUpTo(ArrStrs, MaxArr)} \cup {MissingVal, NotAList}
GoodAuthors == ListVal(<<<<66>>, <<97>>>>)
GoodCategories == ListVal(<<<<97>>>>)

GoodSchema(keys) ==
  SchemaDoc("dict", <<"dict", "dict", "dict">>, "dict", keys, FALSE, {})
FullOrder == <<NAME_KEY, URI_KEY, HEADERS_KEY>>
\* declares headers before name and leaves uri_check undeclared
ShortOrder == <<HEADERS_KEY, NAME_KEY>>

\* schemas whose site-properties declaration cannot be used
BrokenSchemas ==
  {SchemaDoc("other", <<"missing", "missing", "missing">>, "missing", <<>>, FALSE, {})}
  \cup {SchemaDoc("dict", [j \in 1..3 |-> IF j < i THEN "dict" ELSE IF j = i THEN k ELSE "missing"],
                  "missing", <<>>, FALSE, {}) :
          i \in 1..3, k \in {"missing", "null", "other"}}
  \cup {SchemaDoc("dict", <<"dict", "dict", "dict">>, k, <<>>, FALSE, {}) :
          k \in {"missing", "null", "other"}}

Layouts == {"indent2", "other"}

\* the dataset files and schema files a run may start from, as pairs:
\* arrays of every shape over an empty site list; site lists under valid
\* arrays and two declared orders; every schema, usable or
\* not, and every missing or empty file, against small datasets
ArrayInputs ==
  {<<File(JsonText(DataDoc(a, c, ListVal(<<>>)), l)), File(JsonText(GoodSchema(FullOrder), "indent2"))>> :
     a \in ArrVals, c \in ArrVals, l \in Layouts}

\* the sites that carry no headers: what the sort of the site list reads
PlainSites == {s \in SitesOf(MaxKeys) : ~HasKey(s, HEADERS_KEY)}

\* site lists: one site of every shape, and lists of plain sites
SiteLists ==
  SeqsUpTo(SitesOf(MaxKeys), 1) \cup SeqsUpTo(PlainSites, MaxSites)

SiteInputs ==
  {<<File(JsonText(DataDoc(GoodAuthors, GoodCategories, ListVal(ss)), l)),
     File(JsonText(GoodSchema(ko), "indent2"))>> :
     ss \in SiteLists, l \in Layouts, ko \in {FullOrder, ShortOrder}}

SmallSiteLists ==
  {ListVal(ss) : ss \in SeqsUpTo(SitesOf(1), 1)} \cup {MissingVal, NotAList}
SchemaFiles ==
  {File(JsonText(sd, l)) :
     sd \in BrokenSchemas \cup {GoodSchema(ko) : ko \in DistinctSeqs(SiteKeys, Cardinality(SiteKeys))},
     l \in Layouts}
  \cup {File(EmptySchema), NoFile(EmptySchema)}
SchemaInputs ==
  {<<File(JsonText(DataDoc(a, GoodCategories, sl), "indent2")), sf>> :
     a \in {GoodAuthors, MissingVal}, sl \in SmallSiteLists, sf \in SchemaFiles}
  \cup {<<df, File(JsonText(GoodSchema(FullOrder), "indent2"))>> :
          df \in {File(EmptyData), NoFile(EmptyData)}}

Disk(df, sf, dh, sh) ==
  [p \in {DATA_PATH, SCHEMA_PATH, DATA_PATH \o HASH_FILE_EXTENSION,
          SCHEMA_PATH \o HASH_FILE_EXTENSION} |->
     CASE p = DATA_PATH -> df
       [] p = SCHEMA_PATH -> sf
       [] p = DATA_PATH \o HASH_FILE_EXTENSION -> dh
       [] OTHER -> sh]

\* WMNBase.__init__: nothing cached
InitProcess ==
  /\ _data_raw = None(EmptyData)
  /\ _data = None(NoDataDoc)
  /\ _schema_raw = None(EmptySchema)
  /\ _schema = None(NoSchemaDoc)
  /\ hist = <<>>

\* ------------------------------------------------- the formatting workflow
InitFormat ==
  /\ InitProcess
  /\ \E in \in ArrayInputs \cup SiteInputs \cup SchemaInputs :
       disk = Disk(in[1], in[2], NoFile(NoDigest(EmptyData)), NoFile(NoDigest(EmptySchema)))

FormatCall(op, pre, r, outcome) ==
  [op |-> op, pre |-> pre, err |-> r.err, changed |-> r.changed,
   wrote |-> r.wrote, outcome |-> IF r.wrote THEN outcome ELSE "none", out |-> r.out]

\* main's format_file call for the dataset
FormatFileData ==
  /\ Len(hist) < MaxCalls
  /\ \E outcome \in WriteOutcomes :
     \E r \in {format_file_data(World, outcome)} :
       /\ SetWorld(r.w)
       /\ hist' = Append(hist, FormatCall("format_data", World, r, outcome))

\* main's format_file call for the schema
FormatFileSchema ==
  /\ Len(hist) < MaxCalls
  /\ \E outcome \in WriteOutcomes :
     \E r \in {format_file_schema(World, outcome)} :
       /\ SetWorld(r.w)
       /\ hist' = Append(hist, FormatCall("format_schema", World, r, outcome))

NextFormat == FormatFileData \/ FormatFileSchema

SpecFormat == InitFormat /\ [][NextFormat]_vars

\* --------------------------------------------------------- Integrity Hasher
\* WMNDataHasher._compute_sha256: the hex digest of a text
_compute_sha256(text) == [has |-> TRUE, hex |-> text, nl |-> FALSE]

\* new_hash + "\n"
WithNewline(digest) == [digest EXCEPT !.nl = TRUE]

\* str.strip() of a digest file's text keeps everything
StripNothing(text) == text

\* str.strip() of a digest file's text: the final newline goes
Strip(text) == [text EXCEPT !.nl = FALSE]

\* WMNDataHasher._get_hash_file_path
_get_hash_file_path(target_file) == target_file \o HASH_FILE_EXTENSION

HashResult(err, w, status, new_hash, previous_hash, wrote) ==
  [err |-> err, w |-> w, status |-> status, new_hash |-> new_hash,
   previous_hash |-> previous_hash, wrote |-> wrote]

\* update_hash_file without the early return on an equal digest
update_hash_file_always_write(w, target_file, text, outcome) ==
  Let(_compute_sha256(text), LAMBDA new_hash :
    Let(read_file_content(w, _get_hash_file_path(target_file)), LAMBDA rd :
      Let(IF rd.err = "none" THEN Some(Strip(rd.v)) ELSE None(NoDigest(text)),
          LAMBDA previous_hash :
        Let(write_file_content(w, _get_hash_file_path(target_file),
                               WithNewline(new_hash), outcome), LAMBDA wr :
          IF wr.err # "none"
          THEN HashResult("Hash", wr.w, "none", new_hash, previous_hash, TRUE)
          ELSE HashResult("none", wr.w,
                          IF ~previous_hash.some THEN "NEW"
                          ELSE IF previous_hash = Some(new_hash) THEN "UNCHANGED"
                          ELSE "UPDATED",
                          new_hash, previous_hash, TRUE)))))

\* WMNDataHasher.update_hash_file(target_file, data): previous_hash is None
\* when the digest file cannot be read; a failed write is a WMNHashError
update_hash_file(w, target_file, text, outcome) ==
  Let(_compute_sha256(text), LAMBDA new_hash :
    Let(read_file_content(w, _get_hash_file_path(target_file)), LAMBDA rd :
      Let(IF rd.err = "none" THEN Some(Strip(rd.v)) ELSE None(NoDigest(text)),
          LAMBDA previous_hash :
        IF previous_hash = Some(new_hash)
        THEN HashResult("none", w, "UNCHANGED", new_hash, previous_hash, FALSE)
        ELSE Let(write_file_content(w, _get_hash_file_path(target_file),
                                    WithNewline(new_hash), outcome), LAMBDA wr :
               IF wr.err # "none"
               THEN HashResult("Hash", wr.w, "none", new_hash, previous_hash, TRUE)
               ELSE HashResult("none", wr.w,
                               IF ~previous_hash.some THEN "NEW" ELSE "UPDATED",
                               new_hash, previous_hash, TRUE)))))

\* main of wmn_hash_dataset.py, first call:
\* hasher.update_hash_file(hasher.data_path, hasher.data_raw)
update_hash_file_data(w, outcome) ==
  Let(data_raw(w), LAMBDA raw :
    IF raw.err # "none"
    THEN HashResult(raw.err, raw.w, "none", NoDigest(EmptyData), None(NoDigest(EmptyData)), FALSE)
    ELSE update_hash_file(raw.w, DATA_PATH, raw.v, outcome))

\* main of wmn_hash_dataset.py, second call:
\* hasher.update_hash_file(hasher.schema_path, hasher.schema_raw)
update_hash_file_schema(w, outcome) ==
  Let(schema_raw(w), LAMBDA raw :
    IF raw.err # "none"
    THEN HashResult(raw.err, raw.w, "none", NoDigest(EmptySchema), None(NoDigest(EmptySchema)), FALSE)
    ELSE update_hash_file(raw.w, SCHEMA_PATH, raw.v, outcome))

\* the texts the tracked files may hold when the hashing tool runs
HashDataTexts ==
  {JsonText(DataDoc(GoodAuthors, GoodCategories, ListVal(<<>>)), l) : l \in Layouts}
  \cup {JsonText(DataDoc(GoodCategories, GoodCategories, ListVal(<<>>)), "indent2")}
HashSchemaTexts == {JsonText(GoodSchema(ko), "indent2") : ko \in {FullOrder, ShortOrder}}

\* a digest file left by an earlier run, or written by hand without the
\* final newline, or none
DigestFiles(texts, dflt) ==
  {NoFile(NoDigest(dflt))} \cup {File(WithNewline(_compute_sha256(t))) : t \in texts}
  \cup {File(_compute_sha256(t)) : t \in texts}

InitHash ==
  /\ InitProcess
  /\ \E dt \in HashDataTexts, st \in HashSchemaTexts :
       \E dh \in DigestFiles(HashDataTexts, EmptyData),
          sh \in DigestFiles({st}, EmptySchema) :
          disk = Disk(File(dt), File(st), dh, sh)

HashCalls == {i \in DOMAIN hist : hist[i].op = "hash"}
Edits == {i \in DOMAIN hist : hist[i].op = "edit"}

HashCall(target, pre, text, r, outcome) ==
  [op |-> "hash", target |-> target, pre |-> pre, text |-> text, err |-> r.err,
   status |-> r.status, new_hash |-> r.new_hash, previous_hash |-> r.previous_hash,
   wrote |-> r.wrote, outcome |-> IF r.wrote THEN outcome ELSE "none"]

\* main's update_hash_file call for the dataset
UpdateHashFileData ==
  /\ Cardinality(HashCalls) < MaxHashCalls
  /\ \E outcome \in WriteOutcomes :
     \E r \in {update_hash_file_data(World, outcome)} :
       /\ SetWorld(r.w)
       /\ hist' = Append(hist, HashCall(DATA_PATH, World, data_raw(World).v, r, outcome))

\* main's update_hash_file call for the schema
UpdateHashFileSchema ==
  /\ Cardinality(HashCalls) < MaxHashCalls
  /\ \E outcome \in WriteOutcomes :
     \E r \in {update_hash_file_schema(World, outcome)} :
       /\ SetWorld(r.w)
       /\ hist' = Append(hist, HashCall(SCHEMA_PATH, World, schema_raw(World).v, r, outcome))

\* between two runs of the tool the dataset is edited; the next run is a new
\* process (WMNBase.__init__: nothing cached)
EditData ==
  /\ Cardinality(Edits) < MaxEdits
  /\ \E text \in HashDataTexts \ {disk[DATA_PATH].text} :
       /\ disk' = [disk EXCEPT ![DATA_PATH] = File(text)]
       /\ _data_raw' = None(EmptyData)
       /\ _data' = None(NoDataDoc)
       /\ _schema_raw' = None(EmptySchema)
       /\ _schema' = None(NoSchemaDoc)
       /\ hist' = Append(hist, [op |-> "edit", target |-> DATA_PATH, pre |-> World])

\* between two runs of the tool the schema is edited
EditSchema ==
  /\ Cardinality(Edits) < MaxEdits
  /\ \E text \in HashSchemaTexts \ {disk[SCHEMA_PATH].text} :
       /\ disk' = [disk EXCEPT ![SCHEMA_PATH] = File(text)]
       /\ _data_raw' = None(EmptyData)
       /\ _data' = None(NoDataDoc)
       /\ _schema_raw' = None(EmptySchema)
       /\ _schema' = None(NoSchemaDoc)
       /\ hist' = Append(hist, [op |-> "edit", target |-> SCHEMA_PATH, pre |-> World])

NextHash == UpdateHashFileData \/ UpdateHashFileSchema \/ EditData \/ EditSchema

SpecHash == InitHash /\ [][NextHash]_vars

\* -------------------------------------------------------- Semantic Validator
\* What Draft7Validator(schema).iter_errors(data) reports for the site
\* list, in document order: for each site, one finding per missing required
\* key and, under additionalProperties: false, one for its undeclared keys.
\* A schema without a usable site declaration constrains no site.
SiteFindings(sd, site, index) ==
  (IF sd.strict /\ UnknownKeys(site, sd.props.keys) # {}
   THEN <<[path |-> index, message |-> "additional"]>> ELSE <<>>)
  \o (IF \E k \in sd.required : ~HasKey(site, k)
      THEN <<[path |-> index, message |-> "required"]>> ELSE <<>>)

RECURSIVE ListFindings(_, _, _)
ListFindings(sd, sites, index) ==
  IF index > Len(sites) THEN <<>>
  ELSE SiteFindings(sd, sites[index], index) \o ListFindings(sd, sites, index + 1)

iter_errors(sd, d) ==
  IF _get_site_key_order(sd).err # "none" \/ d.sites.t # "list" THEN <<>>
  ELSE ListFindings(sd, d.sites.items, 1)

\* WMNDataValidator.validate_schema: the schema is read first, then the
\* dataset; with a schema that is no JSON object the validator raises an
\* exception that is no WMNError
validate_schema(w) ==
  Let(schema(w), LAMBDA sr :
    IF sr.err # "none" THEN Fail(sr.err, sr.w, <<>>)
    ELSE IF sr.v.root # "dict" THEN Fail("Unexpected", sr.w, <<>>)
    ELSE Let(data(sr.w), LAMBDA dr :
           IF dr.err # "none" THEN Fail(dr.err, dr.w, <<>>)
           ELSE Ret(dr.w, iter_errors(sr.v, dr.v))))

\* [site.get(NAME_KEY) for site in sites_data if site.get(NAME_KEY)]: the
\* names that are there and not empty, in site order
RECURSIVE SiteNames(_)
SiteNames(sites) ==
  IF sites = <<>> THEN <<>>
  ELSE (IF HasKey(Head(sites), NAME_KEY) /\ Get(Head(sites), NAME_KEY).s # <<>>
        THEN <<Get(Head(sites), NAME_KEY).s>> ELSE <<>>) \o SiteNames(Tail(sites))

\* Counter(site_names)[name]
Count(site_names, name) == Cardinality({i \in DOMAIN site_names : site_names[i] = name})

\* the names counted once only are reported too
DuplicatesCountOne(site_names) ==
  SelectSeq([i \in DOMAIN site_names |->
               IF \A j \in 1..(i - 1) : site_names[j] # site_names[i]
               THEN <<site_names[i]>> ELSE <<>>],
            LAMBDA e : e # <<>> /\ Count(site_names, e[1]) >= 1)

\* [name for name, count in Counter(site_names).items() if count > 1]: a
\* Counter lists each name once, in first-seen order
Duplicates(site_names) ==
  SelectSeq([i \in DOMAIN site_names |->
               IF \A j \in 1..(i - 1) : site_names[j] # site_names[i]
               THEN <<site_names[i]>> ELSE <<>>],
            LAMBDA e : e # <<>> /\ Count(site_names, e[1]) > 1)

\* WMNDataValidator.validate_duplicates: data.get(SITES_KEY, []) is the
\* empty list for an absent key; a null or other value that is no list of
\* sites cannot be iterated as one
validate_duplicates(w) ==
  Let(data(w), LAMBDA dr :
    IF dr.err # "none" THEN Fail(dr.err, dr.w, <<>>)
    ELSE IF dr.v.sites.t = "missing" THEN Ret(dr.w, <<>>)
    ELSE IF dr.v.sites.t # "list" THEN Fail("Unexpected", dr.w, <<>>)
    ELSE Ret(dr.w, [i \in DOMAIN Duplicates(SiteNames(dr.v.sites.items)) |->
                      Duplicates(SiteNames(dr.v.sites.items))[i][1]]))

ValidateResult(exit, w, schema_errors, ran_duplicates, duplicate_names) ==
  [exit |-> exit, w |-> w, schema_errors |-> schema_errors,
   ran_duplicates |-> ran_duplicates, duplicate_names |-> duplicate_names]

\* main that goes on to the duplicate check after schema findings and
\* lets that check alone decide
main_validate_no_fail_fast(w) ==
  Let(validate_schema(w), LAMBDA sv :
    IF sv.err # "none" THEN ValidateResult(1, sv.w, sv.v, FALSE, <<>>)
    ELSE Let(validate_duplicates(sv.w), LAMBDA dv :
           IF dv.err # "none" THEN ValidateResult(1, dv.w, sv.v, TRUE, <<>>)
           ELSE IF dv.v # <<>> THEN ValidateResult(1, dv.w, sv.v, TRUE, dv.v)
           ELSE ValidateResult(0, dv.w, sv.v, TRUE, dv.v)))

\* main of wmn_validate_dataset.py: exit code 1 on schema findings, on
\* duplicate names and on any exception, 0 otherwise
main_validate(w) ==
  Let(validate_schema(w), LAMBDA sv :
    IF sv.err # "none" THEN ValidateResult(1, sv.w, sv.v, FALSE, <<>>)
    ELSE IF sv.v # <<>> THEN ValidateResult(1, sv.w, sv.v, FALSE, <<>>)
    ELSE Let(validate_duplicates(sv.w), LAMBDA dv :
           IF dv.err # "none" THEN ValidateResult(1, dv.w, sv.v, TRUE, <<>>)
           ELSE IF dv.v # <<>> THEN ValidateResult(1, dv.w, sv.v, TRUE, dv.v)
           ELSE ValidateResult(0, dv.w, sv.v, TRUE, dv.v)))

\* the site lists given to the validator: names "A", "a", "B", the empty
\* name and no name, with or without a second field
NamedSites ==
  {<<>>, <<<<URI_KEY, StrVal(<<97>>)>>>>}
  \cup {<<<<NAME_KEY, StrVal(n)>>>> : n \in Names \cup {<<>>}}
  \cup {<<<<NAME_KEY, StrVal(n)>>, <<URI_KEY, StrVal(<<97>>)>>>> : n \in {<<65>>}}

ValidatorSiteLists ==
  {ListVal(ss) : ss \in SeqsUpTo(NamedSites, MaxNames)}
  \cup {MissingVal, NotAList, [t |-> "null", items |-> <<>>]}

\* schemas for the validator: the site declaration with or without
\* additionalProperties: false and required: [name]; one that declares no
\* uri_check; the empty schema; a schema that is no object
ValidatorSchemas ==
  {SchemaDoc("dict", <<"dict", "dict", "dict">>, "dict", ko, strict, req) :
     ko \in {FullOrder, ShortOrder}, strict \in BOOLEAN, req \in {{}, {NAME_KEY}}}
  \cup {SchemaDoc("dict", <<"missing", "missing", "missing">>, "missing", <<>>, FALSE, {}),
        NoSchemaDoc}

InitValidate ==
  /\ InitProcess
  /\ \/ \E sl \in ValidatorSiteLists, sd \in ValidatorSchemas :
          disk = Disk(File(JsonText(DataDoc(GoodAuthors, GoodCategories, sl), "indent2")),
                      File(JsonText(sd, "indent2")),
                      NoFile(NoDigest(EmptyData)), NoFile(NoDigest(EmptySchema)))
     \/ \E df \in {File(EmptyData), NoFile(EmptyData)},
           sf \in {File(EmptySchema), NoFile(EmptySchema),
                   File(JsonText(GoodSchema(FullOrder), "indent2"))} :
          disk = Disk(df, sf, NoFile(NoDigest(EmptyData)), NoFile(NoDigest(EmptySchema)))

\* the validation tool run from start to exit
ValidateMain ==
  /\ Len(hist) < MaxValidations
  /\ \E r \in {main_validate(World)} :
       /\ SetWorld(r.w)
       /\ hist' = Append(hist, [op |-> "validate", pre |-> World, exit |-> r.exit,
                                 schema_errors |-> r.schema_errors,
                                 ran_duplicates |-> r.ran_duplicates,
                                 duplicate_names |-> r.duplicate_names])

\* validate_duplicates called on its own
ValidateDuplicates ==
  /\ Len(hist) < MaxValidations
  /\ \E r \in {validate_duplicates(World)} :
       /\ SetWorld(r.w)
       /\ hist' = Append(hist, [op |-> "duplicates", pre |-> World, err |-> r.err,
                                 names |-> r.v])

NextValidate == ValidateMain \/ ValidateDuplicates

SpecValidate == InitValidate /\ [][NextValidate]_vars

\* ------------------------------------------------- properties: formatting
\* the world call i of hist left behind
Post(i) == IF i < Len(hist) THEN hist[i + 1].pre ELSE World

\* the calls of hist that are format_file on the dataset and returned;
\* format_file returns only after format_data returned its text, out
DataFormatted == {i \in DOMAIN hist : hist[i].op = "format_data" /\ hist[i].err = "none"}

\* the parsed dataset call i started from
InputDoc(i) == data(hist[i].pre).v
\* the declared site-property order call i read
KeyOrder(i) == _get_site_key_order(schema(hist[i].pre).v).v

\* a world whose dataset file holds text, nothing of the dataset cached
Rewritten(w, text) ==
  [w EXCEPT !.disk[DATA_PATH] = File(text), !._data_raw = None(EmptyData),
            !._data = None(NoDataDoc)]

Perms(n) == {p \in [1..n -> 1..n] : \A i, j \in 1..n : i # j => p[i] # p[j]}

\* the case-folded name of a site, a missing name being the empty string
FoldedName(site) ==
  Casefold(IF \E k \in DOMAIN site : site[k][1] = NAME_KEY
           THEN site[CHOOSE k \in DOMAIN site : site[k][1] = NAME_KEY][2].s
           ELSE <<>>)

KeySeq(site) == [k \in DOMAIN site |-> site[k][1]]

\* C1: format_data is idempotent: formatting the text format_data returned,
\* under the same schema, returns that same text.
C1_Idempotent ==
  \A i \in DataFormatted :
     LET again == format_data(Rewritten(hist[i].pre, hist[i].out))
     IN  again.err = "none" /\ again.v = hist[i].out

\* a dataset that formatting changed (some array or site list was out of
\* order) was formatted
C1_Witness ==
  \E i \in DataFormatted :
     /\ hist[i].out.doc # InputDoc(i)
     /\ Len(hist[i].out.doc.sites.items) >= 1
     /\ format_data(Rewritten(hist[i].pre, hist[i].out)).v = hist[i].out

\* the dataset of call i parses, the schema declares site properties, and
\* some site has a key outside the declaration
HasUnknownKey(i) ==
  /\ data(hist[i].pre).err = "none"
  /\ schema(hist[i].pre).err = "none"
  /\ _get_site_key_order(schema(hist[i].pre).v).err = "none"
  /\ InputDoc(i).sites.t = "list"
  /\ \E k \in DOMAIN InputDoc(i).sites.items :
        \E key \in {InputDoc(i).sites.items[k][n][1] : n \in DOMAIN InputDoc(i).sites.items[k]} :
           \A m \in DOMAIN KeyOrder(i) : KeyOrder(i)[m] # key

\* C2: strictness: when a site of the dataset has a key the schema does not
\* declare, format_file with format_data raises a Format error and the
\* dataset file is not written.
C2_Strict ==
  \A i \in DOMAIN hist :
     (hist[i].op = "format_data" /\ HasUnknownKey(i)) =>
        /\ hist[i].err = "Format"
        /\ ~hist[i].wrote
        /\ Post(i).disk = hist[i].pre.disk

\* an undeclared key in a dataset whose arrays are valid was rejected
C2_Witness ==
  \E i \in DOMAIN hist :
     /\ hist[i].op = "format_data" /\ HasUnknownKey(i)
     /\ _format_string_array(InputDoc(i).authors).err = "none"
     /\ _format_string_array(InputDoc(i).categories).err = "none"
     /\ hist[i].err = "Format"

\* the dataset file of w is already canonical: format_data returns the
\* very text the file holds
Canonical(w) ==
  /\ data_raw(w).err = "none"
  /\ format_data(data_raw(w).w).err = "none"
  /\ format_data(data_raw(w).w).v = data_raw(w).v

\* two format_file calls on the dataset in a row, i and i + 1
TwiceInARow(i) ==
  /\ i \in DOMAIN hist /\ i + 1 \in DOMAIN hist
  /\ hist[i].op = "format_data" /\ hist[i + 1].op = "format_data"

\* C4 as stated: two format_file calls in a row on an already-canonical
\* file write exactly once, on the first call, and the second reports
\* unchanged.
C4_AsStated ==
  \A i \in DOMAIN hist :
     (TwiceInARow(i) /\ Canonical(hist[i].pre)) =>
        /\ hist[i].wrote /\ hist[i].err = "none"
        /\ ~hist[i + 1].wrote /\ ~hist[i + 1].changed

\* C4, amended: of two format_file calls in a row on the dataset, the first
\* returning, the first writes (once, and reports changed) exactly when the
\* file was not already canonical, and the second returns, writes nothing
\* and reports unchanged.
C4_WriteSkip ==
  \A i \in DOMAIN hist :
     (TwiceInARow(i) /\ hist[i].err = "none") =>
        /\ hist[i].wrote = ~Canonical(hist[i].pre)
        /\ hist[i].changed = hist[i].wrote
        /\ hist[i + 1].err = "none"
        /\ ~hist[i + 1].wrote /\ ~hist[i + 1].changed
        /\ Post(i + 1).disk = Post(i).disk

\* both cases: a file that was rewritten by the first call and left alone
\* by the second
C4_Witness ==
  \E i \in DOMAIN hist :
     /\ TwiceInARow(i) /\ ~Canonical(hist[i].pre)
     /\ hist[i].wrote /\ hist[i].err = "none"
     /\ ~hist[i + 1].wrote /\ hist[i + 1].err = "none"

\* the calls of hist whose write_file_content call returned, and the path
\* each wrote
Written == {i \in DOMAIN hist : hist[i].op \in {"format_data", "format_schema"}
                                  /\ hist[i].wrote /\ hist[i].err = "none"}

\* C5: cache coherence on write: after a successful write_file_content to
\* the dataset (schema) path the cached raw text is the content written,
\* which is what the file holds, the cached parsed structure is
\* invalidated, and the next access to the parsed structure returns the
\* parse of the written content.
C5_CacheCoherent ==
  \A i \in Written :
     IF hist[i].op = "format_data"
     THEN /\ Post(i).disk[DATA_PATH] = File(hist[i].out)
          /\ Post(i)._data_raw = Some(hist[i].out)
          /\ ~Post(i)._data.some
          /\ data(Post(i)).v = parse_json_data(hist[i].out, NoDataDoc).v
     ELSE /\ Post(i).disk[SCHEMA_PATH] = File(hist[i].out)
          /\ Post(i)._schema_raw = Some(hist[i].out)
          /\ ~Post(i)._schema.some
          /\ schema(Post(i)).v = parse_json_data(hist[i].out, NoSchemaDoc).v

\* a dataset write that replaced a cached raw text and a cached parsed
\* structure of other content
C5_Witness ==
  \E i \in Written :
     /\ hist[i].op = "format_data"
     /\ data(hist[i].pre).v # hist[i].out.doc
     /\ Post(i)._data_raw = Some(hist[i].out)
     /\ ~Post(i)._data.some

\* the site lists call i read and returned
InSites(i) == InputDoc(i).sites.items
OutSites(i) == hist[i].out.doc.sites.items

\* C6: sorting invariant: the output sites are the input sites, each
\* formatted, in an order where every adjacent pair has
\* name.casefold() <= next.name.casefold() (a missing name being ""), and
\* sites with equal case-folded names keep their input order.
C6_SortedStable ==
  \A i \in DataFormatted :
     /\ \A k \in 1..(Len(OutSites(i)) - 1) :
           StrLeq(FoldedName(OutSites(i)[k]), FoldedName(OutSites(i)[k + 1]))
     /\ \E p \in Perms(Len(InSites(i))) :
           /\ Len(OutSites(i)) = Len(InSites(i))
           /\ \A k \in DOMAIN OutSites(i) :
                 OutSites(i)[k] = _format_site(InSites(i)[p[k]], KeyOrder(i)).v
           /\ \A k, m \in DOMAIN OutSites(i) :
                 (k < m /\ FoldedName(InSites(i)[p[k]]) = FoldedName(InSites(i)[p[m]]))
                    => p[k] < p[m]

\* a list that had to be reordered against code-point order, and a list
\* with a case tie
C6_Witness ==
  \E i \in DataFormatted :
     /\ Len(InSites(i)) >= 2
     /\ StrLess(FoldedName(InSites(i)[2]), FoldedName(InSites(i)[1]))
     /\ FoldedName(InSites(i)[1]) # FoldedName(InSites(i)[2])
     /\ FoldedName(OutSites(i)[1]) = FoldedName(InSites(i)[2])

\* the declared keys a site has, in declared order
Declared(order, site) ==
  SelectSeq(order, LAMBDA key : \E n \in DOMAIN site : site[n][1] = key)

\* C7: key-order invariant: every output site's field sequence is the
\* schema's declared order with the keys the site lacks removed; its key
\* set and its values are those of the input site (the headers mapping
\* apart, which is re-sorted): nothing fabricated, nothing dropped.
C7_KeyOrder ==
  \A i \in DataFormatted :
     /\ \A k \in DOMAIN OutSites(i) :
           KeySeq(OutSites(i)[k]) = Declared(KeyOrder(i), OutSites(i)[k])
     /\ \E p \in Perms(Len(InSites(i))) :
           /\ Len(OutSites(i)) = Len(InSites(i))
           /\ \A k \in DOMAIN OutSites(i) :
                 /\ Keys(OutSites(i)[k]) = Keys(InSites(i)[p[k]])
                 /\ \A key \in Keys(OutSites(i)[k]) \ {HEADERS_KEY} :
                       Get(OutSites(i)[k], key) = Get(InSites(i)[p[k]], key)

\* a site whose fields came in another order than declared, and lacked a
\* declared key
C7_Witness ==
  \E i \in DataFormatted :
     \E k \in DOMAIN InSites(i) :
        /\ Len(InSites(i)[k]) >= 2
        /\ KeySeq(InSites(i)[k]) # Declared(KeyOrder(i), InSites(i)[k])
        /\ Len(InSites(i)[k]) < Len(KeyOrder(i))
        /\ \E m \in DOMAIN OutSites(i) :
              /\ Keys(OutSites(i)[m]) = Keys(InSites(i)[k])
              /\ KeySeq(OutSites(i)[m]) = Declared(KeyOrder(i), InSites(i)[k])

\* the calls of hist whose write_file_content call raised
WriteFailed == {i \in DOMAIN hist : hist[i].op \in {"format_data", "format_schema"}
                                      /\ hist[i].wrote /\ hist[i].err # "none"}

ReachesSchema(i) ==
  /\ hist[i].op = "format_data"
  /\ data(hist[i].pre).err = "none"
  /\ _format_string_array(InputDoc(i).authors).err = "none"
  /\ _format_string_array(InputDoc(i).categories).err = "none"
  /\ InputDoc(i).sites.t = "list"
  /\ schema(hist[i].pre).err = "none"

\* the schema has no mapping at properties.sites.items.properties: the
\* schema or a link of the path is missing or no object, or the
\* declaration is missing, null or no mapping
NoDeclaration(sd) ==
  \/ sd.root # "dict"
  \/ \E k \in 1..3 : sd.path[k] # "dict"
  \/ sd.props.t # "dict"

\* C12: with a schema that has no extractable site-properties declaration,
\* or one that is no mapping, format_data raises a Schema error, no error
\* of another kind comes out of format_file, and nothing is written.
C12_SchemaError ==
  \A i \in DOMAIN hist :
     (ReachesSchema(i) /\ NoDeclaration(schema(hist[i].pre).v)) =>
        /\ format_data(data_raw(hist[i].pre).w).err = "Schema"
        /\ hist[i].err = "Schema"
        /\ ~hist[i].wrote
        /\ Post(i).disk = hist[i].pre.disk

\* ----------------------------------------------------- properties: hashing
\* the update_hash_file calls that returned a result
HashReturned == {i \in HashCalls : hist[i].err = "none"}

\* the update_hash_file call on the same target just before call i, or 0
PrevCall(i) ==
  LET before == {j \in HashCalls : j < i /\ hist[j].target = hist[i].target}
  IN  IF before = {} THEN 0 ELSE CHOOSE j \in before : \A k \in before : k <= j

\* C3: hash transitions over the update_hash_file calls on one target: a
\* call that finds no digest file yields NEW; a call repeating the text of
\* the call before it yields UNCHANGED with previous_hash = new_hash; a
\* call whose text differs from that of the call before it yields UPDATED
\* with previous_hash # new_hash.
C3_Transitions ==
  \A i \in HashReturned :
     /\ ~hist[i].pre.disk[_get_hash_file_path(hist[i].target)].exists
           => hist[i].status = "NEW"
     /\ (PrevCall(i) \in HashReturned /\ hist[PrevCall(i)].text = hist[i].text)
           => /\ hist[i].status = "UNCHANGED"
              /\ hist[i].previous_hash = Some(hist[i].new_hash)
     /\ (PrevCall(i) \in HashReturned /\ hist[PrevCall(i)].text # hist[i].text)
           => /\ hist[i].status = "UPDATED"
              /\ hist[i].previous_hash.some
              /\ hist[i].previous_hash.v # hist[i].new_hash

\* NEW, then UNCHANGED, then after an edit UPDATED, on the dataset
C3_Witness ==
  \E i, j, k \in HashReturned :
     /\ i < j /\ j < k
     /\ hist[i].target = DATA_PATH /\ hist[j].target = DATA_PATH /\ hist[k].target = DATA_PATH
     /\ hist[i].status = "NEW" /\ hist[j].status = "UNCHANGED" /\ hist[k].status = "UPDATED"
     /\ hist[k].text # hist[j].text

\* the update_hash_file calls that were made: main read the target's text
HashEntered == {i \in HashCalls : hist[i].err \in {"none", "Hash"}}

\* the digest file of call i's target, before and after the call
DigestBefore(i) == hist[i].pre.disk[_get_hash_file_path(hist[i].target)]
DigestAfter(i) == Post(i).disk[_get_hash_file_path(hist[i].target)]

\* the stored digest of call i: the digest file's text without surrounding
\* whitespace, when the file is there
StoredDigest(i) == [DigestBefore(i).text EXCEPT !.nl = FALSE]

\* the digest of the text call i was given
NewDigest(i) == [has |-> TRUE, hex |-> hist[i].text, nl |-> FALSE]

\* C11: digest-file write rule: update_hash_file writes the digest file if
\* and only if the stored digest is absent or differs from the new digest;
\* a write that succeeds leaves exactly new_digest and one newline in the
\* file; when the stored digest equals the new digest the status is
\* UNCHANGED and the digest file is left as it was.
C11_WriteRule ==
  \A i \in HashEntered :
     /\ hist[i].wrote <=> (~DigestBefore(i).exists \/ StoredDigest(i) # NewDigest(i))
     /\ (hist[i].wrote /\ hist[i].err = "none") =>
           DigestAfter(i) = File([NewDigest(i) EXCEPT !.nl = TRUE])
     /\ (DigestBefore(i).exists /\ StoredDigest(i) = NewDigest(i)) =>
           /\ hist[i].err = "none" /\ hist[i].status = "UNCHANGED"
           /\ DigestAfter(i) = DigestBefore(i)

\* a digest file holding the right digest without the final newline was
\* left as it was, and after an edit of the dataset it was rewritten
C11_Witness ==
  \E i, j \in HashEntered :
     /\ i < j /\ hist[i].target = DATA_PATH /\ hist[j].target = DATA_PATH
     /\ DigestBefore(i).exists /\ ~DigestBefore(i).text.nl
     /\ ~hist[i].wrote /\ DigestAfter(i) = DigestBefore(i)
     /\ hist[j].wrote /\ hist[j].err = "none" /\ hist[j].status = "UPDATED"
     /\ DigestAfter(j) = File([NewDigest(j) EXCEPT !.nl = TRUE])

\* the world update_hash_file of call i was entered in: main has read the
\* target's raw text through the accessor, which caches it
Entered(i) ==
  IF hist[i].target = DATA_PATH THEN data_raw(hist[i].pre).w
  ELSE schema_raw(hist[i].pre).w

\* the caches of a world
Caches(w) == <<w._data_raw, w._data, w._schema_raw, w._schema>>

\* C13: frame of hashing: update_hash_file writes neither tracked file
\* and changes no cached raw text and no cached parsed structure; the only
\* file that can differ after the call is the digest file at the target
\* path with the suffix appended.
C13_Frame ==
  \A i \in HashCalls :
     /\ Post(i).disk[DATA_PATH] = hist[i].pre.disk[DATA_PATH]
     /\ Post(i).disk[SCHEMA_PATH] = hist[i].pre.disk[SCHEMA_PATH]
     /\ Caches(Post(i)) = Caches(Entered(i))
     /\ \A p \in DOMAIN Post(i).disk :
           Post(i).disk[p] # hist[i].pre.disk[p] =>
              p = hist[i].target \o HASH_FILE_EXTENSION

\* a call that rewrote the digest file of the dataset with the dataset's
\* raw text cached, after a call that did the same for the schema
C13_Witness ==
  \E i, j \in HashEntered :
     /\ i < j /\ hist[i].target = SCHEMA_PATH /\ hist[j].target = DATA_PATH
     /\ hist[i].wrote /\ hist[i].err = "none" /\ DigestAfter(i) # DigestBefore(i)
     /\ hist[j].wrote /\ hist[j].err = "none" /\ DigestAfter(j) # DigestBefore(j)
     /\ Entered(j)._data_raw.some /\ Entered(j)._schema_raw.some
     /\ Caches(Post(j)) = Caches(Entered(j))
     /\ Post(j).disk[DATA_PATH] = hist[i].pre.disk[DATA_PATH]

\* -------------------------------------------------- properties: validation
\* the validate_duplicates calls that returned, on a dataset with a site list
DuplicatesReturned ==
  {i \in DOMAIN hist : hist[i].op = "duplicates" /\ hist[i].err = "none"
                       /\ InputDoc(i).sites.t = "list"}

\* the sites of call i that carry the name n
Named(i, n) ==
  {k \in DOMAIN InSites(i) :
     \E f \in DOMAIN InSites(i)[k] :
        InSites(i)[k][f][1] = NAME_KEY /\ InSites(i)[k][f][2].s = n}

\* C8: duplicate detection is sound and complete under exact string
\* equality: validate_duplicates returns a name if and only if it is a
\* non-empty name carried by more than one site, and returns it once.
C8_Duplicates ==
  \A i \in DuplicatesReturned :
     /\ \A n \in Names \cup {<<>>} :
           (\E k \in DOMAIN hist[i].names : hist[i].names[k] = n)
              <=> (n # <<>> /\ Cardinality(Named(i, n)) > 1)
     /\ \A k \in DOMAIN hist[i].names : hist[i].names[k] \in Names
     /\ \A k, m \in DOMAIN hist[i].names : k # m => hist[i].names[k] # hist[i].names[m]

\* sites named A, a, A give exactly A
C8_Witness ==
  \E i \in DuplicatesReturned :
     /\ Len(InSites(i)) = 3
     /\ Named(i, <<65>>) = {1, 3}
     /\ Named(i, <<97>>) = {2}
     /\ hist[i].names = <<<<65>>>>

Validated == {i \in DOMAIN hist : hist[i].op = "validate"}

\* C9: the validate operation exits 0 if and only if schema validation
\* returns no finding and the duplicate check returns no name; schema
\* validation runs first, and when it reports a finding the operation
\* fails without running the duplicate check.
C9_Verdict ==
  \A i \in Validated :
     LET sv == validate_schema(hist[i].pre)
         dv == validate_duplicates(sv.w)
     IN  /\ hist[i].exit \in {0, 1}
         /\ (hist[i].exit = 0) <=>
               (sv.err = "none" /\ sv.v = <<>> /\ dv.err = "none" /\ dv.v = <<>>)
         /\ (sv.err = "none" /\ sv.v # <<>>) =>
               /\ hist[i].exit = 1
               /\ hist[i].schema_errors = sv.v
               /\ ~hist[i].ran_duplicates
         /\ hist[i].ran_duplicates => (sv.err = "none" /\ sv.v = <<>>)

\* a dataset with a schema finding and a duplicate name: failed on the
\* finding, the duplicate check not run
C9_Witness ==
  \E i \in Validated :
     /\ validate_schema(hist[i].pre).v # <<>>
     /\ validate_duplicates(hist[i].pre).v # <<>>
     /\ hist[i].exit = 1
     /\ ~hist[i].ran_duplicates

====
